---- MODULE Spec2Model ----
(***************************************************************************)
(* A model of src/main.py: the Field validators (Phone, Birthday), Record, *)
(* AddressBook and the command handlers wrapped by input_error.            *)
(*                                                                         *)
(* A Python str is a sequence of one-character TLA+ strings (the fixed     *)
(* text of a message is kept as one piece).  None is the empty sequence <<>>*)
(* and an optional object is a sequence of length 0 or 1.  A dict is the   *)
(* sequence of its [key, rec] items in insertion order.                    *)
(***************************************************************************)
EXTENDS Integers, Sequences, FiniteSets, TLC

VARIABLES data, prev, last

vars == <<data, prev, last>>

-----------------------------------------------------------------------------
(* Bounds of the model *)

\* longest phone list a Record is allowed to grow to
MaxPhones == 2
\* phones of a Record handed to add_record from outside
MaxRecPhones == 1
\* tokens given to a handler beyond the two it reads
MaxExtraArgs == 1

-----------------------------------------------------------------------------
(* Characters and strings *)

AsciiDigits == {"0", "1", "2", "3", "4", "5", "6", "7", "8", "9"}

\* ARABIC-INDIC DIGIT ZERO..NINE (U+0660..U+0669), category Nd
ArabicDigits == <<"u0660", "u0661", "u0662", "u0663", "u0664",
                  "u0665", "u0666", "u0667", "u0668", "u0669">>

AsciiDigitSeq == <<"0", "1", "2", "3", "4", "5", "6", "7", "8", "9">>

Range(s) == {s[i] : i \in 1..Len(s)}

\* \d in a str pattern: any Unicode decimal digit
IsDecimalDigit(c) == c \in AsciiDigits \cup Range(ArabicDigits)

\* int() of one decimal digit
DigitVal(c) ==
  IF c \in AsciiDigits
    THEN (CHOOSE i \in 1..10 : AsciiDigitSeq[i] = c) - 1
    ELSE (CHOOSE i \in 1..10 : ArabicDigits[i] = c) - 1

UpperLetters == <<"A", "B", "C", "D", "E", "F", "G", "H", "I", "J", "K", "L", "M",
                  "N", "O", "P", "Q", "R", "S", "T", "U", "V", "W", "X", "Y", "Z">>
LowerLetters == <<"a", "b", "c", "d", "e", "f", "g", "h", "i", "j", "k", "l", "m",
                  "n", "o", "p", "q", "r", "s", "t", "u", "v", "w", "x", "y", "z">>

lower_char(c) ==
  IF c \in Range(UpperLetters)
    THEN LowerLetters[CHOOSE i \in 1..Len(UpperLetters) : UpperLetters[i] = c]
    ELSE c

\* str.lower()
lower(s) == [i \in 1..Len(s) |-> lower_char(s[i])]

\* s[i-1] in Python, "" past the end
CharAt(s, i) == IF i \in 1..Len(s) THEN s[i] ELSE ""

None == <<>>

-----------------------------------------------------------------------------
(* Phone *)

\* bool(re.match(r'^\d{10}$', phone_number)): ten \d from the start, then
\* the end of the string or a newline that ends the string
validate_phone(phone_number) ==
  /\ Len(phone_number) >= 10
  /\ \A i \in 1..10 : IsDecimalDigit(phone_number[i])
  /\ \/ Len(phone_number) = 10
     \/ Len(phone_number) = 11 /\ phone_number[11] = "\n"

\* Phone(value): the exception raised ("None" when none) and the object's value
Phone(value) ==
  IF ~validate_phone(value)
    THEN [exc |-> "ValueError", value |-> None]
    ELSE [exc |-> "None", value |-> value]

\* Field.__str__
Field_str(value) == value

-----------------------------------------------------------------------------
(* Birthday: datetime.strptime(value, "%d.%m.%Y") *)

IsLeap(y) == (y % 4 = 0 /\ y % 100 # 0) \/ y % 400 = 0

DaysInMonth(y, m) ==
  IF m = 2 THEN (IF IsLeap(y) THEN 29 ELSE 28)
  ELSE IF m \in {4, 6, 9, 11} THEN 30 ELSE 31

\* %d is 3[0-1]|[1-2]\d|0[1-9]|[1-9]| [1-9]: the length each alternative
\* matches at position p, 0 when it does not match
DayAlts(s, p) ==
  LET a == CharAt(s, p)
      b == CharAt(s, p + 1)
      nz(c) == c \in AsciiDigits \ {"0"}
  IN << IF a = "3" /\ b \in {"0", "1"} THEN 2 ELSE 0,
        IF a \in {"1", "2"} /\ b # "" /\ IsDecimalDigit(b) THEN 2 ELSE 0,
        IF a = "0" /\ nz(b) THEN 2 ELSE 0,
        IF nz(a) THEN 1 ELSE 0,
        IF a = " " /\ nz(b) THEN 2 ELSE 0 >>

\* %m is 1[0-2]|0[1-9]|[1-9]
MonthAlts(s, p) ==
  LET a == CharAt(s, p)
      b == CharAt(s, p + 1)
      nz(c) == c \in AsciiDigits \ {"0"}
  IN << IF a = "1" /\ b \in {"0", "1", "2"} THEN 2 ELSE 0,
        IF a = "0" /\ nz(b) THEN 2 ELSE 0,
        IF nz(a) THEN 1 ELSE 0 >>

\* %Y is \d\d\d\d
YearMatches(s, p) ==
  \A i \in p..(p + 3) : CharAt(s, i) # "" /\ IsDecimalDigit(CharAt(s, i))

\* int() of the digits s[p..q]; a leading space of %d is stripped by int()
IntOf(s, p, q) ==
  LET F[i \in (p - 1)..q] ==
        IF i = p - 1 THEN 0
        ELSE IF s[i] = " " THEN F[i - 1]
        ELSE 10 * F[i - 1] + DigitVal(s[i])
  IN F[q]

\* The regex match of the format, alternatives tried in order with
\* backtracking; then the whole string must have been used, and the
\* numbers must make a date (year 1..9999, day within the month).
strptime(s) ==
  LET cands == { c \in (1..5) \X (1..3) :
                   LET dl == DayAlts(s, 1)[c[1]]
                       ml == MonthAlts(s, 2 + dl)[c[2]]
                   IN /\ dl > 0
                      /\ CharAt(s, 1 + dl) = "."
                      /\ ml > 0
                      /\ CharAt(s, 2 + dl + ml) = "."
                      /\ YearMatches(s, 3 + dl + ml) }
  IN IF cands = {} THEN [exc |-> "ValueError", day |-> 0, month |-> 0, year |-> 0]
     ELSE
       LET first == CHOOSE c \in cands :
                      \A o \in cands : c[1] < o[1] \/ (c[1] = o[1] /\ c[2] <= o[2])
           dl == DayAlts(s, 1)[first[1]]
           ml == MonthAlts(s, 2 + dl)[first[2]]
           end == 2 + dl + ml + 4
           d == IntOf(s, 1, dl)
           m == IntOf(s, 2 + dl, 1 + dl + ml)
           y == IntOf(s, 3 + dl + ml, end)
       IN IF /\ Len(s) = end
             /\ y >= 1
             /\ d <= DaysInMonth(y, m)
            THEN [exc |-> "None", day |-> d, month |-> m, year |-> y]
            ELSE [exc |-> "ValueError", day |-> 0, month |-> 0, year |-> 0]

\* Birthday(value): the string itself is stored, not the parsed date
Birthday(value) ==
  IF strptime(value).exc # "None"
    THEN [exc |-> "ValueError", value |-> None]
    ELSE [exc |-> "None", value |-> value]

-----------------------------------------------------------------------------
(* Record *)

\* Record(name)
Record(name) == [name |-> name, phones |-> <<>>, birthday |-> None]

\* Each Record method gives the exception raised and the Record afterwards.
add_phone(rec, phone) ==
  LET p == Phone(phone)
  IN IF p.exc # "None"
       THEN [exc |-> p.exc, rec |-> rec]
       ELSE [exc |-> "None", rec |-> [rec EXCEPT !.phones = Append(@, p.value)]]

remove_phone(rec, phone) ==
  LET keep(v) == v # phone
  IN [exc |-> "None", rec |-> [rec EXCEPT !.phones = SelectSeq(@, keep)]]

\* the new value validated like add_phone's
edit_phone_validated(rec, old_phone, new_phone) ==
  IF ~validate_phone(new_phone) THEN [exc |-> "ValueError", rec |-> rec]
  ELSE [exc |-> "None",
        rec |-> [rec EXCEPT !.phones =
                   [i \in 1..Len(@) |->
                      IF lower(@[i]) = lower(old_phone) THEN new_phone ELSE @[i]]]]

edit_phone(rec, old_phone, new_phone) ==
  [exc |-> "None",
   rec |-> [rec EXCEPT !.phones =
              [i \in 1..Len(@) |->
                 IF lower(@[i]) = lower(old_phone) THEN new_phone ELSE @[i]]]]

\* the first matching Phone, as <<value>>, or None
find_phone(rec, phone) ==
  LET hits == {i \in 1..Len(rec.phones) : lower(rec.phones[i]) = lower(phone)}
  IN IF hits = {} THEN None
     ELSE <<rec.phones[CHOOSE i \in hits : \A j \in hits : i <= j]>>

add_birthday(rec, birthday) ==
  LET b == Birthday(birthday)
  IN IF b.exc # "None"
       THEN [exc |-> b.exc, rec |-> rec]
       ELSE [exc |-> "None", rec |-> [rec EXCEPT !.birthday = <<b.value>>]]

\* '; '.join(str(p) for p in self.phones)
JoinPhones(phones) ==
  LET F[i \in 0..Len(phones)] ==
        IF i = 0 THEN <<>>
        ELSE IF i = 1 THEN Field_str(phones[1])
        ELSE F[i - 1] \o <<"; ">> \o Field_str(phones[i])
  IN F[Len(phones)]

\* Record.__str__
Record_str(rec) ==
  LET birthday_str == IF rec.birthday # None
                        THEN <<", birthday: ">> \o Field_str(rec.birthday[1])
                        ELSE <<>>
  IN <<"Contact name: ">> \o Field_str(rec.name) \o <<", phones: ">>
       \o JoinPhones(rec.phones) \o birthday_str

-----------------------------------------------------------------------------
(* Dates: datetime + timedelta(days=i) and strftime("%d.%m") *)

NextDay(t) ==
  IF t.d < DaysInMonth(t.y, t.m) THEN [t EXCEPT !.d = @ + 1]
  ELSE IF t.m < 12 THEN [t EXCEPT !.m = @ + 1, !.d = 1]
  ELSE [y |-> t.y + 1, m |-> 1, d |-> 1]

RECURSIVE AddDays(_, _)
AddDays(t, n) == IF n = 0 THEN t ELSE AddDays(NextDay(t), n - 1)

Pad2(n) == <<AsciiDigitSeq[(n \div 10) + 1], AsciiDigitSeq[(n % 10) + 1]>>

strftime_dm(t) == Pad2(t.d) \o <<".">> \o Pad2(t.m)

\* value[0:5]
Slice5(s) == SubSeq(s, 1, IF Len(s) < 5 THEN Len(s) ELSE 5)

-----------------------------------------------------------------------------
(* AddressBook *)

Keys(book) == {book[i].key : i \in 1..Len(book)}

IndexOf(book, name) == CHOOSE i \in 1..Len(book) : book[i].key = name

\* self.data[key] = rec: a key already there keeps its place
DictSet(book, key, rec) ==
  IF key \in Keys(book)
    THEN [book EXCEPT ![IndexOf(book, key)] = [key |-> key, rec |-> rec]]
    ELSE Append(book, [key |-> key, rec |-> rec])

\* a list append instead of a keyed store
add_record_append(book, record) ==
  Append(book, [key |-> record.name, rec |-> record])

\* the new Record's phones added to the old one's
add_record_merge(book, record) ==
  IF record.name \in Keys(book)
    THEN DictSet(book, record.name,
                 [record EXCEPT !.phones = book[IndexOf(book, record.name)].rec.phones \o @])
    ELSE DictSet(book, record.name, record)

add_record(book, record) == DictSet(book, record.name, record)

\* self.data.get(name): <<record>> or None
find(book, name) ==
  IF name \in Keys(book) THEN <<book[IndexOf(book, name)].rec>> ELSE None

\* del self.data[name] with no membership test
delete_unguarded(book, name) ==
  IF name \in Keys(book)
    THEN LET other(e) == e.key # name
         IN [exc |-> "None", book |-> SelectSeq(book, other)]
    ELSE [exc |-> "KeyError", book |-> book]

\* the exception raised and the dict afterwards
delete(book, name) ==
  IF name \in Keys(book)
    THEN LET other(e) == e.key # name
         IN [exc |-> "None", book |-> SelectSeq(book, other)]
    ELSE [exc |-> "None", book |-> book]

\* range(8): the window starts at today
upcoming_dates_from_today(today) ==
  [k \in 1..8 |-> strftime_dm(AddDays(today, k - 1))]

\* range(1, 8)
RangeStart == 1
RangeStop == 8

upcoming_dates(today) ==
  [k \in 1..(RangeStop - RangeStart) |-> strftime_dm(AddDays(today, RangeStart + k - 1))]

get_upcoming_birthdays(book, today) ==
  LET dates == Range(upcoming_dates(today))
      hit(e) == e.rec.birthday # None /\ Slice5(e.rec.birthday[1]) \in dates
      picked == SelectSeq(book, hit)
  IN [i \in 1..Len(picked) |-> picked[i].rec]

-----------------------------------------------------------------------------
(* Command handlers.  A handler body gives the exception it raises ("None" *)
(* when it returns), the string it returns and the address book afterwards. *)

\* a method of the Record stored under name changed that object in place
Mutated(book, name, rec) == [book EXCEPT ![IndexOf(book, name)].rec = rec]

Raised(exc, book) == [exc |-> exc, ret |-> None, book |-> book]

Returned(ret, book) == [exc |-> "None", ret |-> ret, book |-> book]

KeyErrorMsg == <<"Enter valid user name.">>
ValueErrorMsg == <<"Give me name and phone please.">>
IndexErrorMsg == <<"Incomplete command. Please provide necessary arguments.">>

\* the ValueError and IndexError messages exchanged
input_error_swapped(out) ==
  IF out.exc = "KeyError" THEN Returned(KeyErrorMsg, out.book)
  ELSE IF out.exc = "ValueError" THEN Returned(IndexErrorMsg, out.book)
  ELSE IF out.exc = "IndexError" THEN Returned(ValueErrorMsg, out.book)
  ELSE out

\* no except ValueError clause
input_error_no_value_error(out) ==
  IF out.exc = "KeyError" THEN Returned(KeyErrorMsg, out.book)
  ELSE IF out.exc = "IndexError" THEN Returned(IndexErrorMsg, out.book)
  ELSE out

\* the decorator: three exception classes become messages, any other escapes
input_error(out) ==
  IF out.exc = "KeyError" THEN Returned(KeyErrorMsg, out.book)
  ELSE IF out.exc = "ValueError" THEN Returned(ValueErrorMsg, out.book)
  ELSE IF out.exc = "IndexError" THEN Returned(IndexErrorMsg, out.book)
  ELSE out

add_contact_body(args, book) ==
  IF Len(args) < 2 THEN Raised("ValueError", book)   \* name, phone, *_ = args
  ELSE
    LET name == args[1]
        phone == args[2]
        found == find(book, name)
        record == IF found = None THEN Record(name) ELSE found[1]
        book1 == IF found = None THEN add_record(book, record) ELSE book
        message == IF found = None THEN <<"Contact added.">> ELSE <<"Contact updated.">>
    IN IF phone # <<>>
         THEN LET r == add_phone(record, phone)
              IN IF r.exc # "None" THEN Raised(r.exc, book1)
                 ELSE Returned(message, Mutated(book1, name, r.rec))
         ELSE Returned(message, book1)

add_contact(args, book) == input_error(add_contact_body(args, book))

change_contact_body(args, book) ==
  IF Len(args) < 2 THEN Raised("ValueError", book)   \* name, phone, *_ = args
  ELSE
    LET name == args[1]
        phone == args[2]
        found == find(book, name)
        message == IF found # None
                     THEN <<"Contact updated: ">> \o name \o <<" - ">> \o phone
                     ELSE <<"Contact not found: ">> \o name
    IN IF found # None /\ phone # <<>>
         THEN LET r == add_phone(found[1], phone)
              IN IF r.exc # "None" THEN Raised(r.exc, book)
                 ELSE Returned(message, Mutated(book, name, r.rec))
         ELSE Returned(message, book)

change_contact(args, book) == input_error(change_contact_body(args, book))

show_phone_body(args, book) ==
  IF Len(args) < 1 THEN Raised("IndexError", book)   \* args[0]
  ELSE
    LET name == args[1]
    IN IF name \in Keys(book)
         THEN Returned(name \o <<"'s phone number: ">>
                         \o Record_str(book[IndexOf(book, name)].rec), book)
         ELSE Returned(<<"Contact not found: ">> \o name, book)

show_phone(args, book) == input_error(show_phone_body(args, book))

\* "\n".join(...) over address_book.items()
JoinItems(book) ==
  LET line(e) == e.key \o <<" - ">> \o Record_str(e.rec)
      F[i \in 0..Len(book)] ==
        IF i = 0 THEN <<>>
        ELSE IF i = 1 THEN line(book[1])
        ELSE F[i - 1] \o <<"\n">> \o line(book[i])
  IN F[Len(book)]

show_all_body(args, book) ==
  IF Len(book) > 0 THEN Returned(JoinItems(book), book)
  ELSE Returned(<<"No contacts found">>, book)

show_all(args, book) == input_error(show_all_body(args, book))

add_birthday_body(args, book) ==
  IF Len(args) # 2 THEN Raised("ValueError", book)   \* name, birthday = args
  ELSE
    LET name == args[1]
        birthday == args[2]
    IN IF name \in Keys(book)
         THEN LET r == add_birthday(book[IndexOf(book, name)].rec, birthday)
              IN IF r.exc # "None" THEN Raised(r.exc, book)
                 ELSE Returned(<<"Birthday added for ">> \o name \o <<".">>,
                               Mutated(book, name, r.rec))
         ELSE Returned(<<"Contact ">> \o name \o <<" not found.">>, book)

add_birthday_cmd(args, book) == input_error(add_birthday_body(args, book))

show_birthday_body(args, book) ==
  IF Len(args) < 1 THEN Raised("IndexError", book)   \* args[0]
  ELSE
    LET name == args[1]
    IN IF name \in Keys(book)
         THEN LET rec == book[IndexOf(book, name)].rec
              IN IF rec.birthday # None
                   THEN Returned(name \o <<"'s birthday: ">> \o Field_str(rec.birthday[1]),
                                 book)
                   ELSE Returned(<<"No birthday found for ">> \o name \o <<".">>, book)
         ELSE Returned(<<"Contact ">> \o name \o <<" not found.">>, book)

show_birthday(args, book) == input_error(show_birthday_body(args, book))

JoinRecords(recs) ==
  LET F[i \in 0..Len(recs)] ==
        IF i = 0 THEN <<>>
        ELSE IF i = 1 THEN Record_str(recs[1])
        ELSE F[i - 1] \o <<"\n">> \o Record_str(recs[i])
  IN F[Len(recs)]

\* today is what datetime.now() gives during the call
birthdays_body(args, book, today) ==
  LET upcoming_birthdays == get_upcoming_birthdays(book, today)
  IN IF Len(upcoming_birthdays) > 0
       THEN Returned(<<"Upcoming birthdays:\n">> \o JoinRecords(upcoming_birthdays), book)
       ELSE Returned(<<"No upcoming birthdays in the next week.">>, book)

birthdays(args, book, today) == input_error(birthdays_body(args, book, today))

-----------------------------------------------------------------------------
(* Inputs *)

Ann == <<"A", "n", "n">>
Bob == <<"B", "o", "b">>
Names == {Ann, Bob}

P1 == <<"1", "2", "3", "4", "5", "6", "7", "8", "9", "0">>
P2 == <<"0", "9", "8", "7", "6", "5", "4", "3", "2", "1">>
PShort == <<"1", "2", "3">>
PNine == SubSeq(P1, 1, 9)
PEleven == P1 \o <<"1">>
PLetters == <<"1", "2", "3", "4", "5", "a", "b", "c", "d", "e">>
PDashed == <<"1", "2", "3", "-", "4", "5", "6", "-", "7", "8", "9", "0">>
PLeadingSpace == <<" ">> \o P1
PNewline == P1 \o <<"\n">>
PArabic == SubSeq(ArabicDigits, 2, 10) \o <<"u0660">>
Empty == <<>>
Abc == <<"a", "b", "c">>
ABC == <<"A", "B", "C">>

PhoneInputs ==
  {P1, P2, PShort, PNine, PEleven, PLetters, PDashed, PLeadingSpace, PNewline,
   PArabic, Empty}

\* values handed to edit_phone and find_phone
OldPhones == {P1, P2, Abc}
NewPhones == {P2, Abc, ABC}

B0501 == <<"0", "5", ".", "0", "1", ".", "1", "9", "9", "0">>
B0101 == <<"0", "1", ".", "0", "1", ".", "1", "9", "9", "0">>
B0901 == <<"0", "9", ".", "0", "1", ".", "1", "9", "9", "0">>
B2902 == <<"2", "9", ".", "0", "2", ".", "2", "0", "2", "4">>
BadFeb29 == <<"2", "9", ".", "0", "2", ".", "2", "0", "2", "3">>
BadFeb31 == <<"3", "1", ".", "0", "2", ".", "2", "0", "2", "4">>
BadDay00 == <<"0", "0", ".", "0", "1", ".", "2", "0", "0", "0">>
BadMonth13 == <<"0", "5", ".", "1", "3", ".", "1", "9", "9", "0">>
BadYear0 == <<"0", "1", ".", "0", "1", ".", "0", "0", "0", "0">>
Narrow == <<"1", ".", "1", ".", "2", "0", "0", "0">>
NarrowDay == <<"5", ".", "0", "1", ".", "1", "9", "9", "0">>
ShortYear == <<"0", "5", ".", "0", "1", ".", "9", "0">>
LongYear == B0501 \o <<"0">>
Dashed == <<"0", "5", "-", "0", "1", "-", "1", "9", "9", "0">>
Trailing == B0501 \o <<"\n">>

BirthdayInputs ==
  {B0501, B2902, BadFeb29, BadFeb31, BadDay00, BadMonth13, BadYear0, Narrow,
   NarrowDay, ShortYear, LongYear, Dashed, Trailing, Empty}

\* dates datetime.now() may give
Date(y, m, d) == [y |-> y, m |-> m, d |-> d]
Todays ==
  {Date(2024, 1, 1), Date(2023, 12, 28), Date(2023, 12, 31), Date(2024, 1, 8),
   Date(2024, 2, 25), Date(2023, 2, 25), Date(2024, 2, 21)}

\* Records built through Record(name), add_phone and add_birthday (which
\* takes 5.01.1990 as well as 05.01.1990)
SeqsUpTo(S, n) == UNION {[1..k -> S] : k \in 0..n}
InputRecords ==
  {[name |-> n, phones |-> ps, birthday |-> b] :
     n \in Names, ps \in SeqsUpTo({P1, P2}, MaxRecPhones),
     b \in {None, <<B0501>>, <<B0101>>, <<B0901>>, <<B2902>>, <<NarrowDay>>}}

\* argument lists of a command: none, a name, a name and a value, and more
CmdValues == {P1, PShort, B0501, BadFeb31, Empty}
Extra == <<"x">>
ArgLists ==
  {<<>>} \cup {<<n>> : n \in Names} \cup
  {<<n, v>> \o [i \in 1..k |-> Extra] :
     n \in Names, v \in CmdValues, k \in 0..MaxExtraArgs}
CmdRecords ==
  {Record(n) : n \in Names} \cup
  {[name |-> n, phones |-> <<P1>>, birthday |-> <<B0501>>] : n \in Names}

-----------------------------------------------------------------------------
(* State: data is the AddressBook's dict; last is the call just made (its *)
(* arguments, the exception that left it and what it returned) and prev is *)
(* the dict before that call.                                              *)

Call(op, on, args, rec, now, exc, ret) ==
  [op |-> op, on |-> on, args |-> args, rec |-> rec, now |-> now,
   exc |-> exc, ret |-> ret]

Idle == Call("idle", None, <<>>, None, None, "None", None)

\* AddressBook()
Init ==
  /\ data = <<>>
  /\ prev = <<>>
  /\ last = Idle

\* the caller has taken the result (main() has printed it) and is about to
\* make its next call
Resume ==
  /\ last # Idle
  /\ data' = data
  /\ prev' = data
  /\ last' = Idle

Bounded(book) == \A i \in 1..Len(book) : Len(book[i].rec.phones) <= MaxPhones

RecOf(book, name) == book[IndexOf(book, name)].rec

AddRecord(record) ==
  /\ last = Idle
  /\ data' = add_record(data, record)
  /\ prev' = data
  /\ last' = Call("AddressBook.add_record", None, <<>>, <<record>>, None, "None", None)

Find(name) ==
  /\ last = Idle
  /\ data' = data
  /\ prev' = data
  /\ last' = Call("AddressBook.find", None, <<name>>, None, None, "None", find(data, name))

Delete(name) ==
  /\ last = Idle
  /\ data' = delete(data, name).book
  /\ prev' = data
  /\ last' = Call("AddressBook.delete", None, <<name>>, None, None,
                  delete(data, name).exc, None)

GetUpcomingBirthdays(today) ==
  /\ last = Idle
  /\ data' = data
  /\ prev' = data
  /\ last' = Call("AddressBook.get_upcoming_birthdays", None, <<>>, None, <<today>>, "None",
                  get_upcoming_birthdays(data, today))

\* a method of the Record stored under name
RecordCall(name, op, args, r, ret) ==
  /\ last = Idle
  /\ name \in Keys(data)
  /\ Bounded(Mutated(data, name, r.rec))
  /\ data' = Mutated(data, name, r.rec)
  /\ prev' = data
  /\ last' = Call(op, name, args, None, None, r.exc, ret)

AddPhone(name, phone) ==
  /\ name \in Keys(data)
  /\ RecordCall(name, "Record.add_phone", <<phone>>, add_phone(RecOf(data, name), phone), None)

RemovePhone(name, phone) ==
  /\ name \in Keys(data)
  /\ RecordCall(name, "Record.remove_phone", <<phone>>,
                remove_phone(RecOf(data, name), phone), None)

EditPhone(name, old_phone, new_phone) ==
  /\ name \in Keys(data)
  /\ RecordCall(name, "Record.edit_phone", <<old_phone, new_phone>>,
                edit_phone(RecOf(data, name), old_phone, new_phone), None)

FindPhone(name, phone) ==
  /\ name \in Keys(data)
  /\ RecordCall(name, "Record.find_phone", <<phone>>,
                [exc |-> "None", rec |-> RecOf(data, name)],
                find_phone(RecOf(data, name), phone))

AddBirthday(name, birthday) ==
  /\ name \in Keys(data)
  /\ RecordCall(name, "Record.add_birthday", <<birthday>>,
                add_birthday(RecOf(data, name), birthday), None)

\* a command handler, called as main() calls it
Command(op, args, now, out) ==
  /\ last = Idle
  /\ Bounded(out.book)
  /\ data' = out.book
  /\ prev' = data
  /\ last' = Call(op, None, args, None, now, out.exc, out.ret)

CmdAddContact(args) == Command("add_contact", args, None, add_contact(args, data))
CmdChangeContact(args) == Command("change_contact", args, None, change_contact(args, data))
CmdShowPhone(args) == Command("show_phone", args, None, show_phone(args, data))
CmdShowAll(args) == Command("show_all", args, None, show_all(args, data))
CmdAddBirthday(args) == Command("add_birthday", args, None, add_birthday_cmd(args, data))
CmdShowBirthday(args) == Command("show_birthday", args, None, show_birthday(args, data))
CmdBirthdays(args, today) ==
  Command("birthdays", args, <<today>>, birthdays(args, data, today))

\* one Record and its methods
NextRecord ==
  \/ AddRecord(Record(Ann))
  \/ \E phone \in PhoneInputs : AddPhone(Ann, phone)
  \/ \E phone \in OldPhones : RemovePhone(Ann, phone)
  \/ \E old_phone \in OldPhones, new_phone \in NewPhones : EditPhone(Ann, old_phone, new_phone)
  \/ \E phone \in OldPhones \cup NewPhones : FindPhone(Ann, phone)
  \/ \E birthday \in BirthdayInputs : AddBirthday(Ann, birthday)
  \/ Resume

SpecRecord == Init /\ [][NextRecord]_vars

\* the AddressBook's own methods
NextBook ==
  \/ \E record \in InputRecords : AddRecord(record)
  \/ \E name \in Names : Find(name)
  \/ \E name \in Names : Delete(name)
  \/ \E today \in Todays : GetUpcomingBirthdays(today)
  \/ Resume

SpecBook == Init /\ [][NextBook]_vars

\* the command loop, with add_record and delete open to other callers
Next ==
  \/ \E record \in CmdRecords : AddRecord(record)
  \/ \E name \in Names : Delete(name)
  \/ \E args \in ArgLists : CmdAddContact(args)
  \/ \E args \in ArgLists : CmdChangeContact(args)
  \/ \E args \in ArgLists : CmdShowPhone(args)
  \/ \E args \in ArgLists : CmdShowAll(args)
  \/ \E args \in ArgLists : CmdAddBirthday(args)
  \/ \E args \in ArgLists : CmdShowBirthday(args)
  \/ \E args \in ArgLists, today \in Todays : CmdBirthdays(args, today)
  \/ Resume

Spec == Init /\ [][Next]_vars

-----------------------------------------------------------------------------
(* Properties of the AddressBook (SpecBook) *)

\* the "DD.MM" of the day n days after t
DayMonthAfter(t, n) == strftime_dm(AddDays(t, n))

HasBirthday(rec) == rec.birthday # None

\* C1: get_upcoming_birthdays returns, in the dict's insertion order, exactly
\* the Records that have a birthday whose first five characters are the DD.MM
\* of one of the days today+1 .. today+7; a Record whose birthday's DD.MM is
\* that of today or of today+8 is not returned, and a Record without a
\* birthday is never returned.
C1_UpcomingWindow ==
  last.op = "AddressBook.get_upcoming_birthdays" =>
    LET today == last.now[1]
        window == {DayMonthAfter(today, n) : n \in 1..7}
        due(i) == /\ HasBirthday(data[i].rec)
                  /\ Slice5(data[i].rec.birthday[1]) \in window
        Expected[i \in 0..Len(data)] ==
          IF i = 0 THEN <<>>
          ELSE IF due(i) THEN Append(Expected[i - 1], data[i].rec)
          ELSE Expected[i - 1]
    IN /\ last.exc = "None"
       /\ last.ret = Expected[Len(data)]
       /\ \A i \in 1..Len(data) :
            /\ ~HasBirthday(data[i].rec) => data[i].rec \notin Range(last.ret)
            /\ ( /\ HasBirthday(data[i].rec)
                 /\ Slice5(data[i].rec.birthday[1])
                      \in {DayMonthAfter(today, 0), DayMonthAfter(today, 8)} )
               => data[i].rec \notin Range(last.ret)

\* today = 01.01.2024: 05.01.1990 is returned and 01.01.1990 is not
C1_Witness ==
  /\ last.op = "AddressBook.get_upcoming_birthdays"
  /\ last.now = <<Date(2024, 1, 1)>>
  /\ Len(data) = 2
  /\ data[1].rec.birthday = <<B0101>>
  /\ data[2].rec.birthday = <<B0501>>
  /\ last.ret = <<data[2].rec>>

\* C3: add_record of a Record whose name is already a key makes find(name)
\* return exactly that Record (its phones and birthday, nothing of the old
\* Record's), and the dict has as many entries as before.
C3_LastWriteWins ==
  (last.op = "AddressBook.add_record" /\ last.rec[1].name \in Keys(prev)) =>
    LET r2 == last.rec[1]
    IN /\ find(data, r2.name) = <<r2>>
       /\ Len(data) = Len(prev)
       /\ \A i \in 1..Len(data) :
            data[i].key = r2.name =>
              /\ data[i].rec.phones = r2.phones
              /\ data[i].rec.birthday = r2.birthday

\* the Record replaced had a phone and a birthday that the new one lacks
C3_Witness ==
  /\ last.op = "AddressBook.add_record"
  /\ Len(prev) = 2
  /\ last.rec[1].name \in Keys(prev)
  /\ RecOf(prev, last.rec[1].name).phones = <<P1>>
  /\ RecOf(prev, last.rec[1].name).birthday = <<B0501>>
  /\ last.rec[1].phones = <<P2>>
  /\ last.rec[1].birthday = None
  /\ find(data, last.rec[1].name) = <<last.rec[1]>>

\* C4: delete of a name that is not a key raises nothing and leaves the dict
\* as it was; delete of a key removes that one entry and leaves every other
\* entry as it was.
C4_DeleteFrame ==
  last.op = "AddressBook.delete" =>
    LET name == last.args[1]
    IN /\ last.exc = "None"
       /\ name \notin Keys(prev) => data = prev
       /\ name \in Keys(prev) =>
            /\ Len(data) = Len(prev) - 1
            /\ Keys(data) = Keys(prev) \ {name}
            /\ \A k \in Keys(data) : RecOf(data, k) = RecOf(prev, k)

\* a delete of an absent name on a book that holds another Record
C4_Witness ==
  /\ last.op = "AddressBook.delete"
  /\ last.args[1] \notin Keys(prev)
  /\ Len(prev) = 1
  /\ data = prev

-----------------------------------------------------------------------------
(* Properties of Record and the Field validators (SpecRecord) *)

\* exactly ten ASCII digits and nothing else
TenAsciiDigits(s) == Len(s) = 10 /\ \A i \in 1..10 : s[i] \in AsciiDigits

\* C5: Phone construction, and so add_phone, succeeds if and only if the
\* input is exactly ten ASCII digits with nothing before or after them; on
\* success the value stored and its rendering are the input, on failure an
\* invalid-format error is raised and the phone list is as it was.
C5_PhoneTenAsciiDigits ==
  last.op = "Record.add_phone" =>
    LET raw == last.args[1]
        before == RecOf(prev, last.on).phones
        after == RecOf(data, last.on).phones
    IN /\ (last.exc = "None") <=> TenAsciiDigits(raw)
       /\ last.exc = "None" =>
            /\ after = Append(before, raw)
            /\ Field_str(after[Len(after)]) = raw
       /\ last.exc # "None" => (last.exc = "ValueError" /\ after = before)

\* two ASCII digits, ".", two ASCII digits, ".", four ASCII digits, naming a
\* day that exists in that month of that year
RealDateDDMMYYYY(s) ==
  /\ Len(s) = 10
  /\ \A i \in {1, 2, 4, 5, 7, 8, 9, 10} : s[i] \in AsciiDigits
  /\ s[3] = "." /\ s[6] = "."
  /\ LET d == 10 * DigitVal(s[1]) + DigitVal(s[2])
         m == 10 * DigitVal(s[4]) + DigitVal(s[5])
         y == 1000 * DigitVal(s[7]) + 100 * DigitVal(s[8])
                + 10 * DigitVal(s[9]) + DigitVal(s[10])
     IN /\ y >= 1
        /\ m \in 1..12
        /\ d \in 1..DaysInMonth(y, m)

\* C6: Birthday construction succeeds if and only if the input is a real
\* calendar date written as two-digit day, ".", two-digit month, ".",
\* four-digit year; so every stored birthday is ten characters DD.MM.YYYY.
C6_BirthdayStrictFormat ==
  /\ last.op = "Record.add_birthday" =>
       ((last.exc = "None") <=> RealDateDDMMYYYY(last.args[1]))
  /\ \A i \in 1..Len(data) :
       HasBirthday(data[i].rec) => RealDateDDMMYYYY(data[i].rec.birthday[1])

EditMatches(before, old_phone) ==
  {i \in 1..Len(before) : lower(before[i]) = lower(old_phone)}

\* what edit_phone does to the list: every entry equal to old_phone ignoring
\* case now holds new_phone, unvalidated, the others and the order are kept,
\* and nothing is raised
EditInPlace ==
  LET old_phone == last.args[1]
      new_phone == last.args[2]
      before == RecOf(prev, last.on).phones
      after == RecOf(data, last.on).phones
  IN /\ last.exc = "None"
     /\ Len(after) = Len(before)
     /\ \A i \in 1..Len(before) :
          after[i] = (IF i \in EditMatches(before, old_phone) THEN new_phone ELSE before[i])
     /\ EditMatches(before, old_phone) = {} => data = prev

\* C7 as stated: after edit_phone(old, new) on a Record holding old,
\* find_phone(new) returns a stored phone whose value is new.
C7_FindReturnsNewValue ==
  last.op = "Record.edit_phone" =>
    /\ EditInPlace
    /\ (\E i \in 1..Len(RecOf(prev, last.on).phones) :
          RecOf(prev, last.on).phones[i] = last.args[1])
       => find_phone(RecOf(data, last.on), last.args[2]) = <<last.args[2]>>

\* C7 amended: after edit_phone(old, new) on a Record holding old,
\* find_phone(new) returns the first stored phone whose value equals new
\* ignoring letter case; it is new itself unless an earlier entry differs from
\* new only by case.
C7_FindReturnsMatchIgnoringCase ==
  last.op = "Record.edit_phone" =>
    /\ EditInPlace
    /\ EditMatches(RecOf(prev, last.on).phones, last.args[1]) # {}
       => LET after == RecOf(data, last.on).phones
              new_phone == last.args[2]
              found == find_phone(RecOf(data, last.on), new_phone)
              same == {i \in 1..Len(after) : lower(after[i]) = lower(new_phone)}
          IN /\ found # None
             /\ \E i \in same : /\ found = <<after[i]>>
                                /\ \A j \in same : i <= j
             /\ (\A j \in same : after[j] = new_phone) => found = <<new_phone>>

\* an edit to a value that is no ten-digit string, after which find_phone
\* gives an earlier entry that differs from it by case
C7_Witness ==
  /\ last.op = "Record.edit_phone"
  /\ RecOf(prev, last.on).phones = <<Abc, P2>>
  /\ last.args = <<P2, ABC>>
  /\ RecOf(data, last.on).phones = <<Abc, ABC>>
  /\ find_phone(RecOf(data, last.on), ABC) = <<Abc>>

-----------------------------------------------------------------------------
(* Properties of the command handlers (Spec) *)

Handlers ==
  {"add_contact", "change_contact", "show_phone", "show_all", "add_birthday",
   "show_birthday", "birthdays"}

\* C2: every Record in the dict is stored under its own name.value, so no
\* two stored Records have the same name.
C2_KeyedByOwnName ==
  /\ \A i \in 1..Len(data) : data[i].key = data[i].rec.name
  /\ \A i, j \in 1..Len(data) : data[i].rec.name = data[j].rec.name => i = j

\* a second add of a name through a handler, on a book of two Records
C2_Witness ==
  /\ last.op = "add_contact"
  /\ Len(prev) = 2
  /\ Len(last.args) = 2
  /\ last.args[1] \in Keys(prev)
  /\ Len(data) = 2
  /\ data # prev

\* tokens a handler reads
Needs(op) ==
  IF op \in {"add_contact", "change_contact", "add_birthday"} THEN 2
  ELSE IF op \in {"show_phone", "show_birthday"} THEN 1
  ELSE 0

\* C8 as stated: a handler given fewer tokens than it needs returns the
\* incomplete-command message.
C8_TooFewIsIncomplete ==
  (last.op \in Handlers /\ Len(last.args) < Needs(last.op)) =>
    (last.exc = "None" /\ last.ret = IndexErrorMsg)

\* C8 amended: show_phone and show_birthday given no token return the
\* incomplete-command message; add_contact, change_contact and add_birthday
\* given fewer than two tokens return "Give me name and phone please.".
C8_TooFewByHandler ==
  (last.op \in Handlers /\ Len(last.args) < Needs(last.op)) =>
    /\ last.exc = "None"
    /\ data = prev
    /\ last.op \in {"show_phone", "show_birthday"} => last.ret = IndexErrorMsg
    /\ last.op \in {"add_contact", "change_contact", "add_birthday"}
         => last.ret = ValueErrorMsg

\* add_contact given a name only, on a book that holds it
C8_Witness ==
  /\ last.op = "add_contact"
  /\ Len(last.args) = 1
  /\ last.args[1] \in Keys(data)
  /\ last.ret = ValueErrorMsg

\* C9: every handler, whatever the book and the argument list, returns a
\* string and lets no exception escape.
C9_NoExceptionEscapes ==
  last.op \in Handlers => (last.exc = "None" /\ Len(last.ret) > 0)

\* add_birthday of a malformed date for a stored contact
C9_Witness ==
  /\ last.op = "add_birthday"
  /\ last.args = <<Ann, BadFeb31>>
  /\ Ann \in Keys(prev)
  /\ last.exc = "None"
  /\ last.ret = ValueErrorMsg

NotFoundMsgs(name) ==
  {<<"Contact not found: ">> \o name, <<"Contact ">> \o name \o <<" not found.">>}

\* C10: a handler that returns one of input_error's messages or a not-found
\* message leaves the address book as it was.
C10_ErrorLeavesBookUnchanged ==
  ( /\ last.op \in Handlers
    /\ \/ last.ret \in {KeyErrorMsg, ValueErrorMsg, IndexErrorMsg}
       \/ (Len(last.args) > 0 /\ last.ret \in NotFoundMsgs(last.args[1])) )
  => data = prev

====
